---- MODULE Spec2Model ----
(***************************************************************************)
(* Model of the Pipol Challenge API: the OAuth2 token endpoints            *)
(* (app/controllers/auth/router.py), the AuthService that backs them       *)
(* (app/services/auth_service.py), the bearer-token gate in front of the   *)
(* GraphQL endpoint (app/core/dependencies.py), the load-once CSV          *)
(* repository (app/repositories/product_repository.py) with its queries on *)
(* the rows, the resolvers of the GraphQL schema                           *)
(* (app/controllers/products/resolvers.py) and the pagination and          *)
(* sanitizing functions of app/services/products_service.py.               *)
(*                                                                         *)
(* The endpoints are "async def" coroutines without an await in their      *)
(* body, so the event loop runs each handler to completion: requests that  *)
(* are in flight together are handled in an arbitrary order, one whole     *)
(* handler at a time.                                                      *)
(***************************************************************************)
EXTENDS Integers, Sequences, FiniteSets, Bags, TLC

----------------------------------------------------------------------------
(* Bounds of the model *)

\* HTTP requests received over a run
MaxRequests == 2
\* requests in flight (received, not yet handled) at one time
MaxPending == 2
\* direct calls of AuthService methods over a run
MaxCalls == 2

----------------------------------------------------------------------------
(* app/core/config.py *)

\* The fields class Settings declares; an attribute outside this record
\* does not exist on the settings object (reading it raises AttributeError).
settings ==
    [ APP_NAME |-> "Pipol Challenge API",
      APP_VERSION |-> "1.0.0",
      DEBUG |-> TRUE,
      HOST |-> "0.0.0.0",
      PORT |-> 8000,
      SECRET_KEY |-> "09d25e094faa6ca2556c818166b7a9563b93f7099f6f0f4caa6cf63b88e8d3e7",
      ALGORITHM |-> "HS256",
      ACCESS_TOKEN_EXPIRE_MINUTES |-> 30,
      CLIENT_ID |-> "pipol_client",
      CLIENT_SECRET |-> "pipol_secret_2024",
      CSV_FILE_PATH |-> "data.csv" ]

\* getattr(settings, name) succeeds
HasSetting(name) == name \in DOMAIN settings

----------------------------------------------------------------------------
(* Time.  The clock counts ticks; the JWT library keeps whole seconds. *)

\* the clock moves at most this many times over a run
MaxAdvances == 2
\* pd.read_csv is called at most this many times over a run
MaxReads == 3

\* clock ticks per second
TicksPerSecond == 2

\* timegm(dt.utctimetuple()): a datetime cut down to whole seconds
Seconds(t) == t \div TicksPerSecond

\* timedelta(minutes = m), in ticks
Minutes(m) == m * 60 * TicksPerSecond

\* the refresh_expires_in of the example TokenResponse, in seconds: the life
\* of a refresh token a response advertises
refresh_expires_in == 604800

\* the advertised life of a refresh token, in ticks
AdvertisedLife == refresh_expires_in * TicksPerSecond

----------------------------------------------------------------------------
(* Values *)

\* grant_type strings a request carries: each endpoint supports one of them
GrantTypes == {"client_credentials", "refresh_token"}
\* client_id strings a request carries
ClientIds == {"pipol_client", "wrong_client"}
\* client_secret strings a request carries
ClientSecrets == {"pipol_secret_2024", "wrong_secret"}

\* A refresh token string is a natural number: secrets.token_urlsafe(32)
\* returns the n-th value of a sequence that never repeats (n >= 1);
\* 0 is a string that was never generated ("invalid_refresh_token_12345").
NeverIssued == 0
\* no refresh token in a response
NoRefresh == -1

\* Optional[timedelta]: {} is None, {d} is a timedelta of d ticks
NoDelta == {}

\* an access token string: a JWT (its claims and the key that signed it) or
\* a string that is no JWT
NoAccess == [kind |-> "none", sub |-> "", type |-> "", exp |-> 0, iat |-> 0, jti |-> 0, key |-> ""]
GarbageAccess == [kind |-> "garbage", sub |-> "", type |-> "", exp |-> 0, iat |-> 0, jti |-> 0, key |-> ""]

\* the payload verify_token returns for None
NonePayload == [valid |-> FALSE, sub |-> "", type |-> "", exp |-> 0, iat |-> 0, jti |-> 0]

VARIABLES
    refresh_tokens,   \* AuthService._refresh_tokens
    issued,           \* refresh token strings generated so far
    issued_at,        \* per refresh token string: the time it was generated
    jtis,             \* secrets.token_hex(16) values generated so far
    minted,           \* access tokens create_access_token has returned
    now,              \* datetime.utcnow(), in ticks
    pending,          \* bag of the requests received and not yet handled, each with
                      \* whether its refresh token was valid when it arrived
    received,         \* number of requests received
    calls,            \* number of direct AuthService calls
    last,             \* the last operation: its input and its outcome
    redeemed,         \* refresh tokens a success response of /auth/refresh was given for
    mints,            \* per refresh token: access tokens /auth/refresh minted from it
    advances,         \* number of times the clock has moved
    created,          \* the access token create_access_token returned last
    issue,            \* the arguments and the time of that call
    checked,          \* the last verify_token call: its argument, time and result
    file,             \* what is on disk at settings.CSV_FILE_PATH
    df,               \* ProductRepository._df
    reads,            \* pd.read_csv calls that returned a DataFrame
    read_calls,       \* pd.read_csv calls
    out,              \* the last repository query and its outcome
    gql,              \* the last request to /graphql and its outcome
    threads,          \* per thread inside a repository query: where it is in _load_data
    table,            \* the rows _load_data makes of the file at settings.CSV_FILE_PATH
    call              \* the last call of a query or service function: arguments and result

authvars == <<refresh_tokens, issued, issued_at, jtis, minted, pending,
              received, calls, last, redeemed, mints>>
jwtvars == <<created, issue, checked>>
rowvars == <<threads, table, call>>
datavars == <<file, df, reads, read_calls, out, gql, rowvars>>
nonauth == <<advances, jwtvars, datavars>>
vars == <<authvars, now, nonauth>>

\* the most refresh tokens a run can generate
MaxTokens == MaxRequests + MaxCalls
Tokens == 1..MaxTokens

NoRequest == [ep |-> "none", grant_type |-> "", client_id |-> "", client_secret |-> "",
              refresh_token |-> NeverIssued]

\* models/domain/auth.py: TokenRequest
TokenRequest(g, c, s) ==
    [ep |-> "token", grant_type |-> g, client_id |-> c, client_secret |-> s,
     refresh_token |-> NeverIssued]

\* models/domain/auth.py: RefreshTokenRequest
RefreshTokenRequest(g, t, c) ==
    [ep |-> "refresh", grant_type |-> g, client_id |-> c, client_secret |-> "",
     refresh_token |-> t]

\* the record of an operation that has not happened
NoOp ==
    [op |-> "none", request |-> NoRequest, status |-> 0, error |-> "",
     access_token |-> NoAccess, token_type |-> "", expires_in |-> 0,
     refresh_token |-> NoRefresh, refresh_expires_in |-> 0,
     ret |-> FALSE, raced |-> FALSE]

----------------------------------------------------------------------------
(* app/services/auth_service.py *)

\* verify_client_credentials with "or" in place of "and"
verify_client_credentials_or(client_id, client_secret) ==
    \/ client_id = settings.CLIENT_ID
    \/ client_secret = settings.CLIENT_SECRET

\* AuthService.verify_client_credentials
verify_client_credentials(client_id, client_secret) ==
    /\ client_id = settings.CLIENT_ID
    /\ client_secret = settings.CLIENT_SECRET

\* AuthService.create_access_token: the token minted at time t with the
\* jti value j.  "if expires_delta:" takes the else branch for None and for
\* timedelta(0), which is falsy.
create_access_token(sub, type, expires_delta, t, j) ==
    LET expire == IF expires_delta # NoDelta /\ expires_delta # {0}
                    THEN t + (CHOOSE d \in expires_delta : TRUE)
                    ELSE t + Minutes(settings.ACCESS_TOKEN_EXPIRE_MINUTES)
    IN [kind |-> "jwt", sub |-> sub, type |-> type,
        exp |-> Seconds(expire), iat |-> Seconds(t), jti |-> j,
        key |-> settings.SECRET_KEY]

\* AuthService.verify_token at time t: jwt.decode checks the signature and
\* raises ExpiredSignatureError (a JWTError) when exp < now, both in seconds.
verify_token(token, t) ==
    IF /\ token.kind = "jwt"
       /\ token.key = settings.SECRET_KEY
       /\ ~(token.exp < Seconds(t))
    THEN [valid |-> TRUE, sub |-> token.sub, type |-> token.type,
          exp |-> token.exp, iat |-> token.iat, jti |-> token.jti]
    ELSE NonePayload

\* verify_refresh_token that accepts every string that was once generated
verify_refresh_token_stale(rts, refresh_token) == refresh_token # NeverIssued

\* verify_refresh_token that turns down a token older than the advertised life
verify_refresh_token_expiring(rts, refresh_token) ==
    /\ refresh_token \in rts
    /\ now - issued_at[refresh_token] <= AdvertisedLife

\* AuthService.verify_refresh_token, on the set rts
verify_refresh_token(rts, refresh_token) == refresh_token \in rts

\* revoke_refresh_token that forgets to remove the token
RevokedSet_kept(rts, refresh_token) == rts

\* AuthService.revoke_refresh_token: the set it leaves
RevokedSet(rts, refresh_token) ==
    IF refresh_token \in rts THEN rts \ {refresh_token} ELSE rts

\* revoke_refresh_token that returns True on both paths
RevokedRet_true(rts, refresh_token) == TRUE

\* AuthService.revoke_refresh_token: the value it returns
RevokedRet(rts, refresh_token) == refresh_token \in rts

\* AuthService.create_refresh_token: the string secrets.token_urlsafe(32) returns
NewRefreshToken == issued + 1

\* what refresh_access_token returns (None is ret = FALSE with no token) and
\* the set it leaves
Refreshed(ret, access_token, rts) == [ret |-> ret, access_token |-> access_token, refresh_tokens |-> rts]

\* refresh_access_token that removes the token it was given
refresh_access_token_consuming(rts, refresh_token, client_id, t, j) ==
    IF ~verify_refresh_token(rts, refresh_token)
    THEN Refreshed(FALSE, NoAccess, rts)
    ELSE Refreshed(TRUE, create_access_token(client_id, "client_credentials", NoDelta, t, j),
                   rts \ {refresh_token})

\* AuthService.refresh_access_token, lines 132-139, on the set rts at time t
\* with the jti value j
refresh_access_token(rts, refresh_token, client_id, t, j) ==
    IF ~verify_refresh_token(rts, refresh_token)
    THEN Refreshed(FALSE, NoAccess, rts)
    ELSE Refreshed(TRUE, create_access_token(client_id, "client_credentials", NoDelta, t, j),
                   rts)

----------------------------------------------------------------------------
(* app/controllers/auth/router.py *)

\* raise HTTPException(status_code, detail = {"error": error, ...})
HTTPException(op, request, status, error) ==
    [NoOp EXCEPT !.op = op, !.request = request, !.status = status, !.error = error]

\* return TokenResponse(...), router.py lines 77-86 and 143-149: the keyword
\* arguments are evaluated before the model is built, and
\* settings.REFRESH_TOKEN_EXPIRE_DAYS raises AttributeError when Settings has
\* no such field; the unhandled exception is answered with status 500.
TokenResponse(op, request, access_token, refresh_token) ==
    IF HasSetting("ACCESS_TOKEN_EXPIRE_MINUTES") /\ HasSetting("REFRESH_TOKEN_EXPIRE_DAYS")
    THEN [NoOp EXCEPT !.op = op, !.request = request, !.status = 200,
                      !.access_token = access_token, !.token_type = "bearer",
                      !.expires_in = settings.ACCESS_TOKEN_EXPIRE_MINUTES * 60,
                      !.refresh_token = refresh_token,
                      !.refresh_expires_in = settings.REFRESH_TOKEN_EXPIRE_DAYS * 24 * 60 * 60]
    ELSE [NoOp EXCEPT !.op = op, !.request = request, !.status = 500,
                      !.error = "AttributeError"]

\* a request as it waits: with whether its refresh token is valid now
Arrived(request) ==
    [request |-> request, valid_on_arrival |-> request.refresh_token \in refresh_tokens]

\* a request is received and waits for the event loop to run its handler
Receive(request) ==
    /\ received < MaxRequests
    /\ BagCardinality(pending) < MaxPending
    /\ pending' = pending (+) SetToBag({Arrived(request)})
    /\ received' = received + 1
    /\ UNCHANGED <<refresh_tokens, issued, issued_at, jtis, minted, calls, last, redeemed, mints, now, nonauth>>

\* POST /auth/token arrives
ReceiveToken ==
    \E g \in GrantTypes, c \in ClientIds, s \in ClientSecrets :
        Receive(TokenRequest(g, c, s))

\* POST /auth/refresh arrives; it carries a string that was generated as a
\* refresh token or one that never was
ReceiveRefresh ==
    \E g \in GrantTypes, t \in 0..issued, c \in ClientIds :
        Receive(RefreshTokenRequest(g, t, c))

\* get_token(request), router.py lines 44-86
get_token(p) ==
    /\ p.request.ep = "token"
    /\ pending' = pending (-) SetToBag({p})
    /\ LET request == p.request IN
       IF request.grant_type # "client_credentials"
       THEN /\ last' = HTTPException("get_token", request, 400, "unsupported_grant_type")
            /\ UNCHANGED <<refresh_tokens, issued, issued_at, jtis, minted>>
       ELSE IF ~verify_client_credentials(request.client_id, request.client_secret)
       THEN /\ last' = HTTPException("get_token", request, 401, "invalid_client")
            /\ UNCHANGED <<refresh_tokens, issued, issued_at, jtis, minted>>
       ELSE LET access_token ==
                    create_access_token(request.client_id, "client_credentials",
                        {Minutes(settings.ACCESS_TOKEN_EXPIRE_MINUTES)}, now, jtis + 1)
                refresh_token == NewRefreshToken
            IN /\ jtis' = jtis + 1
               /\ minted' = minted \cup {access_token}
               /\ issued' = issued + 1
               /\ issued_at' = [issued_at EXCEPT ![NewRefreshToken] = now]
               /\ refresh_tokens' = refresh_tokens \cup {refresh_token}
               /\ last' = TokenResponse("get_token", request, access_token, refresh_token)
    /\ UNCHANGED <<received, calls, redeemed, mints, now, nonauth>>

\* refresh_token that revokes the token it is given before it looks at the
\* grant type
refresh_token_revoking_first(p) ==
    /\ p.request.ep = "refresh"
    /\ pending' = pending (-) SetToBag({p})
    /\ LET request == p.request IN
       IF request.grant_type # "refresh_token"
       THEN /\ last' = HTTPException("refresh_token", request, 400, "unsupported_grant_type")
            /\ refresh_tokens' = RevokedSet(refresh_tokens, request.refresh_token)
            /\ UNCHANGED <<issued, issued_at, jtis, minted, redeemed, mints>>
       ELSE IF ~verify_refresh_token(refresh_tokens, request.refresh_token)
       THEN \* refresh_access_token returned None
            /\ last' = [HTTPException("refresh_token", request, 401, "invalid_grant")
                            EXCEPT !.raced = p.valid_on_arrival]
            /\ UNCHANGED <<refresh_tokens, issued, issued_at, jtis, minted, redeemed, mints>>
       ELSE LET new_access_token ==
                    create_access_token(request.client_id, "client_credentials",
                        NoDelta, now, jtis + 1)
                new_refresh_token == NewRefreshToken
                response == TokenResponse("refresh_token", request,
                                          new_access_token, new_refresh_token)
            IN /\ jtis' = jtis + 1
               /\ minted' = minted \cup {new_access_token}
               /\ mints' = [mints EXCEPT ![request.refresh_token] = @ + 1]
               /\ issued' = issued + 1
               /\ issued_at' = [issued_at EXCEPT ![NewRefreshToken] = now]
               /\ refresh_tokens' =
                      RevokedSet(refresh_tokens, request.refresh_token)
                          \cup {new_refresh_token}
               /\ last' = response
               /\ redeemed' = IF response.status = 200
                                THEN redeemed \cup {request.refresh_token}
                                ELSE redeemed
    /\ UNCHANGED <<received, calls, now, nonauth>>

\* refresh_token(request), router.py lines 111-149
refresh_token(p) ==
    /\ p.request.ep = "refresh"
    /\ pending' = pending (-) SetToBag({p})
    /\ LET request == p.request IN
       IF request.grant_type # "refresh_token"
       THEN /\ last' = HTTPException("refresh_token", request, 400, "unsupported_grant_type")
            /\ UNCHANGED <<refresh_tokens, issued, issued_at, jtis, minted, redeemed, mints>>
       ELSE IF ~verify_refresh_token(refresh_tokens, request.refresh_token)
       THEN \* refresh_access_token returned None
            /\ last' = [HTTPException("refresh_token", request, 401, "invalid_grant")
                            EXCEPT !.raced = p.valid_on_arrival]
            /\ UNCHANGED <<refresh_tokens, issued, issued_at, jtis, minted, redeemed, mints>>
       ELSE LET new_access_token ==
                    create_access_token(request.client_id, "client_credentials",
                        NoDelta, now, jtis + 1)
                new_refresh_token == NewRefreshToken
                response == TokenResponse("refresh_token", request,
                                          new_access_token, new_refresh_token)
            IN /\ jtis' = jtis + 1
               /\ minted' = minted \cup {new_access_token}
               /\ mints' = [mints EXCEPT ![request.refresh_token] = @ + 1]
               /\ issued' = issued + 1
               /\ issued_at' = [issued_at EXCEPT ![NewRefreshToken] = now]
               /\ refresh_tokens' =
                      RevokedSet(refresh_tokens, request.refresh_token)
                          \cup {new_refresh_token}
               /\ last' = response
               /\ redeemed' = IF response.status = 200
                                THEN redeemed \cup {request.refresh_token}
                                ELSE redeemed
    /\ UNCHANGED <<received, calls, now, nonauth>>

----------------------------------------------------------------------------
(* Direct calls of the AuthService methods (the unit tests, other callers) *)

ServiceCall(op, token, client_id) ==
    [NoOp EXCEPT !.op = op, !.request.refresh_token = token,
                 !.request.client_id = client_id]

\* auth_service.create_refresh_token(client_id)
CallCreateRefreshToken ==
    \E c \in ClientIds :
        /\ calls < MaxCalls
        /\ calls' = calls + 1
        /\ issued' = issued + 1
        /\ issued_at' = [issued_at EXCEPT ![NewRefreshToken] = now]
        /\ refresh_tokens' = refresh_tokens \cup {NewRefreshToken}
        /\ last' = [ServiceCall("create_refresh_token", NeverIssued, c)
                        EXCEPT !.refresh_token = NewRefreshToken, !.ret = TRUE]
        /\ UNCHANGED <<jtis, minted, pending, received, redeemed, mints, now, nonauth>>

\* auth_service.verify_refresh_token(t)
CallVerifyRefreshToken ==
    \E t \in 0..issued :
        /\ calls < MaxCalls
        /\ calls' = calls + 1
        /\ last' = [ServiceCall("verify_refresh_token", t, "")
                        EXCEPT !.ret = verify_refresh_token(refresh_tokens, t)]
        /\ UNCHANGED <<refresh_tokens, issued, issued_at, jtis, minted, pending, received,
                       redeemed, mints, now, nonauth>>

\* auth_service.revoke_refresh_token(t)
CallRevokeRefreshToken ==
    \E t \in 0..issued :
        /\ calls < MaxCalls
        /\ calls' = calls + 1
        /\ refresh_tokens' = RevokedSet(refresh_tokens, t)
        /\ last' = [ServiceCall("revoke_refresh_token", t, "")
                        EXCEPT !.ret = RevokedRet(refresh_tokens, t)]
        /\ UNCHANGED <<issued, issued_at, jtis, minted, pending, received, redeemed, mints, now, nonauth>>

\* auth_service.refresh_access_token(t, client_id), auth_service.py lines 122-139
CallRefreshAccessToken ==
    \E t \in 0..issued, c \in ClientIds :
        LET returned == refresh_access_token(refresh_tokens, t, c, now, jtis + 1)
        IN /\ calls < MaxCalls
           /\ calls' = calls + 1
           /\ refresh_tokens' = returned.refresh_tokens
           /\ jtis' = IF returned.ret THEN jtis + 1 ELSE jtis
           /\ minted' = IF returned.ret THEN minted \cup {returned.access_token} ELSE minted
           /\ last' = [ServiceCall("refresh_access_token", t, c)
                           EXCEPT !.access_token = returned.access_token,
                                  !.ret = returned.ret]
           /\ UNCHANGED <<issued, issued_at, pending, received, redeemed, mints, now, nonauth>>

----------------------------------------------------------------------------
(* The clock *)

\* how far the clock moves in one step: a tick, or the access TTL
Delays == {1, Minutes(settings.ACCESS_TOKEN_EXPIRE_MINUTES)}

\* time passes between two calls
Tick ==
    \E d \in Delays :
        /\ advances < MaxAdvances
        /\ advances' = advances + 1
        /\ now' = now + d
        /\ UNCHANGED <<authvars, jwtvars, datavars>>

\* how long the process sits between two requests: a tick more than the
\* advertised life of a refresh token
Pauses == {AdvertisedLife + 1}

\* a long time passes between two calls, with no request waiting
Sleep ==
    \E d \in Pauses :
        /\ pending = EmptyBag
        /\ advances < MaxAdvances
        /\ advances' = advances + 1
        /\ now' = now + d
        /\ UNCHANGED <<authvars, jwtvars, datavars>>

----------------------------------------------------------------------------
(* Access tokens: AuthService.create_access_token and verify_token *)

\* "sub" values of the data dict given to create_access_token
Subjects == {"pipol_client", "wrong_client"}

\* expires_delta arguments of create_access_token: None, timedelta(0), half a
\* second, one second, two and a half seconds, a second in the past, 30 minutes
Deltas ==
    {NoDelta, {0}, {1}, {TicksPerSecond}, {2 * TicksPerSecond + 1},
     {0 - TicksPerSecond}, {Minutes(settings.ACCESS_TOKEN_EXPIRE_MINUTES)}}

\* the record of a create_access_token call that has not happened
NoIssue == [sub |-> "", expires_delta |-> NoDelta, at |-> 0]
\* the record of a verify_token call that has not happened
NoCheck == [token |-> NoAccess, at |-> 0, payload |-> NonePayload]

\* a JWT with the claims of tok, signed with a key other than SECRET_KEY
Forged(tok) == [tok EXCEPT !.key = "another_secret"]

\* auth_service.create_access_token({"sub": sub, "type": ...}, expires_delta)
CallCreateAccessToken ==
    \E sub \in Subjects, expires_delta \in Deltas :
        /\ jtis < MaxCalls
        /\ jtis' = jtis + 1
        /\ created' = create_access_token(sub, "client_credentials", expires_delta,
                                        now, jtis + 1)
        /\ issue' = [sub |-> sub, expires_delta |-> expires_delta, at |-> now]
        /\ checked' = NoCheck
        /\ UNCHANGED <<refresh_tokens, issued, issued_at, minted, pending,
                       received, calls, last, redeemed, mints, now, advances, datavars>>

\* auth_service.verify_token(tok): of the token that was created, of a JWT
\* signed with another key, or of a string that is no JWT
CallVerifyToken ==
    \E tok \in {created, Forged(created), GarbageAccess} :
        /\ created # NoAccess
        /\ checked' = [token |-> tok, at |-> now, payload |-> verify_token(tok, now)]
        /\ UNCHANGED <<authvars, now, advances, created, issue, datavars>>

JwtInit ==
    /\ created = NoAccess
    /\ issue = NoIssue
    /\ checked = NoCheck

NextJwt ==
    \/ CallCreateAccessToken
    \/ CallVerifyToken
    \/ Tick

----------------------------------------------------------------------------
(* Python values *)

\* Optional[T]: None is the empty set, a value x is the set {x}
None == {}
Some(x) == {x}
Value(o) == CHOOSE x \in o : TRUE

\* "o or d" for an Optional[int] o: None and 0 are falsy
OrInt(o, d) == IF o = None \/ Value(o) = 0 THEN d ELSE Value(o)

\* "if o:" for an Optional[str] o: None and "" are falsy
Given(o) == o # None /\ Value(o) # <<>>

Min(a, b) == IF a < b THEN a ELSE b
Max(a, b) == IF a > b THEN a ELSE b

\* A str is a sequence of one-character strings.
Uppercase ==
    <<"A", "B", "C", "D", "E", "F", "G", "H", "I", "J", "K", "L", "M",
      "N", "O", "P", "Q", "R", "S", "T", "U", "V", "W", "X", "Y", "Z">>
Lowercase ==
    <<"a", "b", "c", "d", "e", "f", "g", "h", "i", "j", "k", "l", "m",
      "n", "o", "p", "q", "r", "s", "t", "u", "v", "w", "x", "y", "z">>
Digits == <<"0", "1", "2", "3", "4", "5", "6", "7", "8", "9">>

\* the printable ASCII characters in code point order, from 32 (the
\* character 96 is written out)
Ascii ==
    <<" ", "!", "\"", "#", "$", "%", "&", "'", "(", ")", "*", "+", ",", "-", ".", "/">>
    \o Digits \o <<":", ";", "<", "=", ">", "?", "@">>
    \o Uppercase \o <<"[", "\\", "]", "^", "_", "backtick">>
    \o Lowercase \o <<"{", "|", "}", "~">>

\* the characters \s matches and str.strip() removes
Whitespace == {" ", "\t", "\n", "\r"}

Has(t, c) == \E i \in 1..Len(t) : t[i] = c
IndexOf(t, c) == CHOOSE i \in 1..Len(t) : t[i] = c

\* ord(c), for the printable characters
ord(c) == 31 + IndexOf(Ascii, c)

\* the lower-case letter of each upper-case letter
LowerOf == [c \in {Uppercase[i] : i \in 1..Len(Uppercase)} |-> Lowercase[IndexOf(Uppercase, c)]]

\* the character c as re.IGNORECASE compares it
lower(c) == IF c \in DOMAIN LowerOf THEN LowerOf[c] ELSE c

\* a < b for two str
RECURSIVE StrLess(_, _)
StrLess(a, b) ==
    IF a = <<>> THEN b # <<>>
    ELSE IF b = <<>> THEN FALSE
    ELSE IF a[1] = b[1] THEN StrLess(Tail(a), Tail(b))
    ELSE ord(a[1]) < ord(b[1])

\* sorted(l) for a list l of distinct str, given as the set of its elements
RECURSIVE sorted(_)
sorted(S) ==
    IF S = {} THEN <<>>
    ELSE LET m == CHOOSE x \in S : \A y \in S \ {x} : StrLess(x, y)
         IN <<m>> \o sorted(S \ {m})

\* the pattern p matches at the start of s under re.IGNORECASE; "." in p
\* matches any character
RegexAt(p, s) ==
    /\ Len(p) <= Len(s)
    /\ \A k \in 1..Len(p) : p[k] = "." \/ lower(p[k]) = lower(s[k])

\* re.compile(p) succeeds.  The patterns of the model are made of letters,
\* digits, "." and "("; a "(" in them opens a group that is never closed.
re_compiles(p) == ~Has(p, "(")

\* re.compile(p, re.IGNORECASE).search(s) is not None
re_search(p, s) == \E i \in 0..Len(s) : RegexAt(p, SubSeq(s, i + 1, Len(s)))

\* the literal p matches in s from position i on, under re.IGNORECASE
LiteralAt(p, s, i) ==
    /\ i + Len(p) - 1 <= Len(s)
    /\ \A k \in 1..Len(p) : lower(p[k]) = lower(s[i + k - 1])

\* re.sub(a1|a2|..., '', s, flags=re.IGNORECASE) for literal alternatives:
\* at the leftmost position where an alternative matches, the first
\* alternative that matches there is removed, and the scan goes on behind it
RECURSIVE re_sub(_, _)
re_sub(alts, s) ==
    LET starts == {i \in 1..Len(s) : \E a \in 1..Len(alts) : LiteralAt(alts[a], s, i)}
    IN IF starts = {} THEN s
       ELSE LET i == CHOOSE x \in starts : \A y \in starts : x <= y
                a == CHOOSE x \in 1..Len(alts) :
                        /\ LiteralAt(alts[x], s, i)
                        /\ \A y \in 1..(x - 1) : ~LiteralAt(alts[y], s, i)
            IN SubSeq(s, 1, i - 1) \o re_sub(alts, SubSeq(s, i + Len(alts[a]), Len(s)))

\* s.strip()
RECURSIVE strip(_)
strip(s) ==
    IF s = <<>> THEN s
    ELSE IF s[1] \in Whitespace THEN strip(Tail(s))
    ELSE IF s[Len(s)] \in Whitespace THEN strip(SubSeq(s, 1, Len(s) - 1))
    ELSE s

\* l[start:stop] and df.iloc[start:stop]: a negative index counts from the
\* end, and both ends are cut to the length
slice(l, start, stop) ==
    LET n == Len(l)
        clip(i) == IF i < 0 THEN Max(n + i, 0) ELSE Min(i, n)
    IN IF clip(start) < clip(stop) THEN SubSeq(l, clip(start) + 1, clip(stop)) ELSE <<>>

----------------------------------------------------------------------------
(* app/repositories/product_repository.py *)

\* what can be on disk at CSV_FILE_PATH: no file, a file the process may not
\* open, content pd.read_csv cannot parse, or one of two versions of the data
FileStates == {"missing", "unreadable", "malformed", "v1", "v2"}

\* the files pd.read_csv raises on
Unreadable == {"missing", "unreadable", "malformed"}

\* the exception pd.read_csv raises on the file f
ReadError(f) ==
    CASE f = "missing" -> "FileNotFoundError"
      [] f = "unreadable" -> "PermissionError"
      [] f = "malformed" -> "ParserError"

\* the exception of a step of lines 41-62
NormalizationError == "Exception in normalization"

\* no exception
NoError == [type |-> "none", message |-> <<"", "", "">>, cause |-> "none"]

\* an except clause that raises the exception it caught
IOError_unwrapped(cause) == [type |-> cause, message |-> <<cause, "", "">>, cause |-> "none"]

\* raise IOError(f"Error loading CSV file: {str(e)}") from e, line 65: the
\* message is the fixed text, ": " and the text of the cause
IOError(cause) ==
    [type |-> "IOError", message |-> <<"Error loading CSV file", ": ", cause>>, cause |-> cause]

\* self._df = None
NoneDf == [content |-> "none", normalized |-> FALSE]
\* the DataFrame pd.read_csv returns for the file f, all columns strings
RawDf(f) == [content |-> f, normalized |-> FALSE]
\* that DataFrame after lines 41-62 of _load_data
NormalizedDf(f) == [content |-> f, normalized |-> TRUE]

\* the repository's state and the exception the call raised
RepoState(d, r, c, error) ==
    [df |-> d, reads |-> r, read_calls |-> c, raised |-> error # NoError, error |-> error]

\* _load_data that reads the file on every call
load_data_reread(st, f, ok) ==
    IF f \in Unreadable
    THEN RepoState(st.df, st.reads, st.read_calls + 1, IOError(ReadError(f)))
    ELSE IF ~ok
    THEN RepoState(RawDf(f), st.reads + 1, st.read_calls + 1, IOError(NormalizationError))
    ELSE RepoState(NormalizedDf(f), st.reads + 1, st.read_calls + 1, NoError)

\* ProductRepository._load_data, from the state st with f on disk; ok says
\* whether lines 41-62 run through without an exception.  self._df is
\* assigned by line 34, before the normalization, and every exception of the
\* try block is raised again as IOError.
load_data(st, f, ok) ==
    IF st.df # NoneDf
    THEN RepoState(st.df, st.reads, st.read_calls, NoError)
    ELSE IF f \in Unreadable
    THEN RepoState(st.df, st.reads, st.read_calls + 1, IOError(ReadError(f)))
    ELSE IF ~ok
    THEN RepoState(RawDf(f), st.reads + 1, st.read_calls + 1, IOError(NormalizationError))
    ELSE RepoState(NormalizedDf(f), st.reads + 1, st.read_calls + 1, NoError)

\* the query methods of ProductRepository; each starts with df = self._load_data()
RepoQueries == {"get_all", "get_by_filter", "count", "get_brands", "get_categories"}

\* the record of a query that has not happened
NoQuery == [op |-> "none", raised |-> FALSE, error |-> NoError, data |-> NoneDf, on_disk |-> "none"]

\* the outcome of the query op that ended in the state st: the IOError, or
\* a result computed from the DataFrame _load_data returned
QueryResult(op, st) ==
    [op |-> op, raised |-> st.raised, error |-> st.error,
     data |-> IF st.raised THEN NoneDf ELSE st.df,
     on_disk |-> file]

Current == RepoState(df, reads, read_calls, NoError)

\* the repository is left in the state st after the query op
Leaves(op, st) ==
    /\ df' = st.df
    /\ reads' = st.reads
    /\ read_calls' = st.read_calls
    /\ out' = QueryResult(op, st)

\* product_repository.get_all / get_by_filter / count / get_brands / get_categories
CallQuery ==
    \E op \in RepoQueries, ok \in IF df = NoneDf /\ file \notin Unreadable THEN BOOLEAN ELSE {TRUE} :
        /\ read_calls < MaxReads
        /\ Leaves(op, load_data(Current, file, ok))
        /\ UNCHANGED <<authvars, now, advances, jwtvars, file, gql, rowvars>>

\* the file at CSV_FILE_PATH is replaced, removed or restored
FileChange ==
    \E f \in FileStates \ {file} :
        /\ file' = f
        /\ UNCHANGED <<authvars, now, advances, jwtvars, df, reads, read_calls, out, gql, rowvars>>

----------------------------------------------------------------------------
(* app/core/dependencies.py, app/controllers/products *)

\* the fields of Query
GraphqlQueries == {"products", "searchProducts", "brands", "categories", "stats"}

\* the access token a client was given at time 0 for the default TTL
IssuedToken == create_access_token("pipol_client", "client_credentials", NoDelta, 0, 1)
\* one that was given for a TTL of one second
ShortToken == create_access_token("pipol_client", "client_credentials", {TicksPerSecond}, 0, 2)

\* what the Authorization header of a request carries: nothing (NoAccess), or
\* "Bearer" and a string
Credentials == {NoAccess, GarbageAccess, IssuedToken, ShortToken, Forged(IssuedToken)}

\* the record of a request that has not happened
NoGraphql ==
    [seq |-> 0, credentials |-> NoAccess, query |-> "none", status |-> 0,
     resolver |-> "none", result |-> "none"]

\* the repository method a resolver calls first
FirstQuery(q) ==
    CASE q = "products" -> "get_all"
      [] q = "searchProducts" -> "get_by_filter"
      [] q = "brands" -> "get_brands"
      [] q = "categories" -> "get_categories"
      [] q = "stats" -> "count"

\* the repository method a resolver calls last
LastQuery(q) == IF q = "stats" THEN "get_categories" ELSE FirstQuery(q)

\* the repository state after the resolver of q: stats calls count,
\* get_brands and get_categories in turn and stops at the first that raises
AfterResolver(q, ok) ==
    LET s1 == load_data(Current, file, ok)
        s2 == IF s1.raised THEN s1 ELSE load_data(s1, file, ok)
        s3 == IF s2.raised THEN s2 ELSE load_data(s2, file, ok)
    IN IF q = "stats" THEN s3 ELSE s1

\* what the resolver of q hands back: products and search_products catch
\* every exception and return []; the others let it through to the GraphQL
\* layer, which reports it in the "errors" of the response
ResolverResult(q, raised) ==
    IF ~raised THEN "data"
    ELSE IF q \in {"products", "searchProducts"} THEN "empty"
    ELSE "error"

Answer(credentials, q, status, resolver, result) ==
    [seq |-> 1 - gql.seq, credentials |-> credentials, query |-> q,
     status |-> status, resolver |-> resolver, result |-> result]

\* get_current_user that lets every payload through
Authenticated_any(payload) == TRUE

\* get_current_user, dependencies.py lines 28-37: the payload is accepted
Authenticated(payload) == payload # NonePayload

\* whether lines 41-62 of _load_data get through is open only when the call
\* reads a file
NormalizationOutcomes == IF df = NoneDf /\ file \notin Unreadable THEN BOOLEAN ELSE {TRUE}

\* POST /graphql: HTTPBearer, get_current_user, get_context, then the resolver
Graphql ==
    \E credentials \in Credentials, q \in GraphqlQueries :
        /\ read_calls < MaxReads
        /\ IF credentials = NoAccess
           THEN \* HTTPBearer(auto_error = True) raises; the status is 403, or
                \* 401 in later releases of the framework
                /\ \E unauthenticated \in {401, 403} :
                       gql' = Answer(credentials, q, unauthenticated, "none", "none")
                /\ UNCHANGED <<df, reads, read_calls, out>>
           ELSE IF ~Authenticated(verify_token(credentials, now))
           THEN /\ gql' = Answer(credentials, q, 401, "none", "none")
                /\ UNCHANGED <<df, reads, read_calls, out>>
           ELSE \E ok \in NormalizationOutcomes :
                   LET st == AfterResolver(q, ok)
                   IN /\ Leaves(IF st.raised THEN FirstQuery(q) ELSE LastQuery(q), st)
                      /\ gql' = Answer(credentials, q, 200, q, ResolverResult(q, st.raised))
        /\ UNCHANGED <<authvars, now, advances, jwtvars, file, rowvars>>

----------------------------------------------------------------------------
(* The rows of the DataFrame, and the queries on them *)

\* rows in the file, at most
MaxRows == 3

\* the columns of a row the queries look at; each cell is an Optional
Row(date, client, sku, brand, category) ==
    [id_tie_fecha_valor |-> date,
     id_cli_cliente |-> client,
     desc_ga_sku_producto |-> sku,
     desc_ga_marca_producto |-> brand,
     desc_categoria_prod_principal |-> category]

STANLEY == <<"S", "T", "A", "N", "L", "E", "Y">>
Stanley == <<"S", "t", "a", "n", "l", "e", "y">>
\* the sentinel get_brands leaves out
NoAplica == <<"N", "o", " ", "A", "p", "l", "i", "c", "a">>
CAMPING == <<"C", "A", "M", "P", "I", "N", "G">>
Hogar == <<"H", "o", "g", "a", "r">>
Jan29 == <<"2", "0", "2", "4", "0", "1", "2", "9">>
Jan30 == <<"2", "0", "2", "4", "0", "1", "3", "0">>
K1 == <<"K", "1">>
K2 == <<"K", "2">>

\* the rows a file is made of
SampleRows ==
    { Row(Some(Jan29), Some(8), Some(K1), Some(STANLEY), Some(CAMPING)),
      Row(Some(Jan30), Some(8), Some(K2), Some(Stanley), Some(Hogar)),
      Row(Some(Jan29), Some(9), Some(K2), Some(NoAplica), Some(CAMPING)),
      Row(None, None, None, None, None) }

\* the files: every sequence of at most MaxRows of these rows
Datasets == UNION {[1..n -> SampleRows] : n \in 0..MaxRows}

\* the file the other specifications start from
SampleTable ==
    << Row(Some(Jan29), Some(8), Some(K1), Some(STANLEY), Some(CAMPING)),
       Row(Some(Jan29), Some(9), Some(K2), Some(NoAplica), Some(CAMPING)) >>

\* df[mask]: the rows that satisfy Keep, in order
Where(rows, Keep(_)) == SelectSeq(rows, Keep)

\* Series.str.contains(pat, case=False, na=False) on one cell: pat is a
\* regular expression, and a null cell gives False
str_contains(cell, pat) == cell # None /\ re_search(pat, Value(cell))

\* what a query hands back: a list of rows, or an exception
Returned(rows) == [raised |-> FALSE, error |-> "none", rows |-> rows]
Raised(error) == [raised |-> TRUE, error |-> error, rows |-> <<>>]

\* get_all whose slice runs one row past the page
get_all_overlapping(rows, limit, offset) == slice(rows, offset, offset + limit + 1)

\* get_all that takes limit for the end of the slice
get_all_upto(rows, limit, offset) == slice(rows, offset, limit)

\* ProductRepository.get_all, lines 82-88, on the rows _load_data returned
get_all(rows, limit, offset) == slice(rows, offset, offset + limit)

\* ProductDataFilter(...): the fields, and whether pydantic accepts them
\* (limit has le=1000, offset has ge=0; None passes both)
MAX_LIMIT == 1000
ProductDataFilter(date, client_id, brand, sku, category, limit, offset) ==
    [date |-> date, client_id |-> client_id, brand |-> brand, sku |-> sku,
     category |-> category, limit |-> limit, offset |-> offset]
Validates(f) ==
    /\ f.limit = None \/ Value(f.limit) <= MAX_LIMIT
    /\ f.offset = None \/ Value(f.offset) >= 0

\* the limit get_by_filter takes for a filter without one, line 126
DefaultLimit == 100

\* ProductRepository.get_by_filter, lines 103-133, on the rows _load_data
\* returned.  str.contains compiles its pattern before it looks at a row.
get_by_filter(rows, f) ==
    LET by_date == IF Given(f.date)
                   THEN Where(rows, LAMBDA r : r.id_tie_fecha_valor = f.date)
                   ELSE rows
        by_client == IF f.client_id # None
                     THEN Where(by_date, LAMBDA r : r.id_cli_cliente = f.client_id)
                     ELSE by_date
        by_brand == IF Given(f.brand)
                    THEN Where(by_client,
                               LAMBDA r : str_contains(r.desc_ga_marca_producto, Value(f.brand)))
                    ELSE by_client
        by_sku == IF Given(f.sku)
                  THEN Where(by_brand, LAMBDA r : r.desc_ga_sku_producto = f.sku)
                  ELSE by_brand
        by_category == IF Given(f.category)
                       THEN Where(by_sku,
                                  LAMBDA r : str_contains(r.desc_categoria_prod_principal,
                                                          Value(f.category)))
                       ELSE by_sku
        offset == OrInt(f.offset, 0)
        limit == OrInt(f.limit, DefaultLimit)
    IN IF Given(f.brand) /\ ~re_compiles(Value(f.brand)) THEN Raised("re.error")
       ELSE IF Given(f.category) /\ ~re_compiles(Value(f.category)) THEN Raised("re.error")
       ELSE Returned(slice(by_category, offset, offset + limit))

\* ProductRepository.count
count(rows) == Len(rows)

\* df[column].dropna().unique(), as a set
Unique(rows, column) == {Value(rows[i][column]) : i \in {j \in 1..Len(rows) : rows[j][column] # None}}

\* get_brands that keeps the sentinel
get_brands_all(rows) == sorted(Unique(rows, "desc_ga_marca_producto"))

\* ProductRepository.get_brands, lines 143-144
get_brands(rows) == sorted(Unique(rows, "desc_ga_marca_producto") \ {NoAplica})

\* ProductRepository.get_categories, lines 149-150
get_categories(rows) == sorted(Unique(rows, "desc_categoria_prod_principal"))

----------------------------------------------------------------------------
(* app/controllers/products/resolvers.py, on the rows *)

\* ProductFilterInput(): the defaults of the GraphQL input type
ProductFilterInput(date, client_id, brand, sku, category, limit, offset) ==
    [date |-> date, client_id |-> client_id, brand |-> brand, sku |-> sku,
     category |-> category, limit |-> limit, offset |-> offset]
DefaultFilterInput == ProductFilterInput(None, None, None, None, None, Some(100), Some(0))

\* what a resolver did: whether it called the repository, whether that call
\* got to slice the DataFrame, the limit and the offset of the slice, and the
\* list the resolver returned
Resolved(reached, sliced, limit, offset, rows) ==
    [reached |-> reached, sliced |-> sliced, limit |-> limit, offset |-> offset, rows |-> rows]

\* Query.products, lines 62-68
products(rows, limit, offset) == Resolved(TRUE, TRUE, limit, offset, get_all(rows, limit, offset))

\* the ProductDataFilter Query.search_products builds from its argument,
\* lines 85-97: every text field is the argument's, as it came
model_filter(filter) ==
    LET input == IF filter = None THEN DefaultFilterInput ELSE Value(filter)
    IN ProductDataFilter(input.date, input.client_id, input.brand,
                         input.sku, input.category,
                         Some(OrInt(input.limit, 100)),
                         Some(OrInt(input.offset, 0)))

\* Query.search_products, lines 84-104: a ValidationError of
\* ProductDataFilter and an exception of get_by_filter end in []
search_products(rows, filter) ==
    LET found == get_by_filter(rows, model_filter(filter))
    IN IF ~Validates(model_filter(filter)) THEN Resolved(FALSE, FALSE, 0, 0, <<>>)
       ELSE IF found.raised THEN Resolved(TRUE, FALSE, 0, 0, <<>>)
       ELSE Resolved(TRUE, TRUE, OrInt(model_filter(filter).limit, DefaultLimit),
                     OrInt(model_filter(filter).offset, 0), found.rows)

\* Query.stats, lines 134-142
stats(rows) ==
    [total_records |-> count(rows),
     brands_count |-> Len(get_brands(rows)),
     categories_count |-> Len(get_categories(rows))]

----------------------------------------------------------------------------
(* app/services/products_service.py *)

\* max_limit of validate_pagination, line 88
max_limit == 100

\* ProductsService.validate_pagination, lines 88-92
validate_pagination(limit, offset) ==
    [limit |-> Min(Max(1, limit), max_limit), offset |-> Max(0, offset)]

\* the defaults of build_filter's limit and offset, lines 101-102
build_filter_limit == 50
build_filter_offset == 0

\* dangerous_patterns, lines 153-160: each pattern as the list of its
\* alternatives
dangerous_patterns ==
    << << <<";">>, <<"'">>, <<"\"">>, <<"<">>, <<">">> >>,
       << <<"-", "-">> >>,
       << <<"/", "*">> >>,
       << <<"*", "/">> >>,
       << <<"s", "c", "r", "i", "p", "t">>, <<"a", "l", "e", "r", "t">>,
          <<"e", "v", "a", "l">>, <<"d", "o", "c", "u", "m", "e", "n", "t">>,
          <<"w", "i", "n", "d", "o", "w">> >>,
       << <<"D", "R", "O", "P">>, <<"I", "N", "S", "E", "R", "T">>,
          <<"U", "P", "D", "A", "T", "E">>, <<"D", "E", "L", "E", "T", "E">>,
          <<"S", "E", "L", "E", "C", "T">>, <<"U", "N", "I", "O", "N">>,
          <<"T", "A", "B", "L", "E">> >> >>

\* the loop of lines 163-164: one re.sub per pattern, in order
RECURSIVE RemovePatterns(_, _)
RemovePatterns(patterns, s) ==
    IF patterns = <<>> THEN s
    ELSE RemovePatterns(Tail(patterns), re_sub(Head(patterns), s))

\* the characters [\w\s\-_.,&()] matches
WhitelistedChars ==
    {Uppercase[i] : i \in 1..Len(Uppercase)} \cup {Lowercase[i] : i \in 1..Len(Lowercase)}
    \cup {Digits[i] : i \in 1..Len(Digits)} \cup Whitespace
    \cup {"-", "_", ".", ",", "&", "(", ")"}
Whitelisted(c) == c \in WhitelistedChars

\* max_length, line 170
max_length == 100

\* ProductsService._sanitize_string_input, lines 148-174
sanitize_string_input(value) ==
    IF value = <<>> THEN value
    ELSE LET removed == RemovePatterns(dangerous_patterns, strip(value))
             kept == SelectSeq(removed, Whitelisted)
             cut == IF Len(kept) > max_length THEN SubSeq(kept, 1, max_length) ELSE kept
         IN strip(cut)

\* "self._sanitize_string_input(x) if x else None", lines 122-125
Sanitized(x) == IF Given(x) THEN Some(sanitize_string_input(Value(x))) ELSE None

\* ProductsService.build_filter, lines 119-135
build_filter(date, client_id, brand, sku, category, limit, offset) ==
    LET validated == validate_pagination(limit, offset)
    IN ProductDataFilter(Sanitized(date), client_id, Sanitized(brand), Sanitized(sku),
                         Sanitized(category), Some(validated.limit), Some(validated.offset))

----------------------------------------------------------------------------
(* Calls of the queries and of the service functions *)

\* a call: the function, its arguments and what it returned.  What a call
\* returns depends on its arguments and on the rows only, so a run makes one.
Call(op, args, ret) == [op |-> op, args |-> args, ret |-> ret]
NoCall == Call("none", <<>>, <<>>)

\* everything but the record of the call
notcall == <<authvars, now, advances, jwtvars, file, df, reads, read_calls, out, gql,
             threads, table>>

\* the limits and offsets a caller of the repository passes
Limits == -1..(MaxRows + 1) \cup {DefaultLimit, MAX_LIMIT, 5 * MAX_LIMIT}
Offsets == -1..(MaxRows + 1)

\* the filters a caller of get_by_filter passes: objects pydantic accepts
BrandQueries ==
    {None, Some(<<"s", "t", "a", "n">>), Some(<<"S", "T", "A", "N">>), Some(<<".">>), Some(<<"(">>)}
CategoryQueries == {None, Some(<<"c", "a", "m", "p">>)}
Filters ==
    {ProductDataFilter(date, client_id, brand, sku, category, limit, offset) :
        date \in {None, Some(Jan29)}, client_id \in {None, Some(8)},
        brand \in BrandQueries, sku \in {None, Some(K2)}, category \in CategoryQueries,
        limit \in {None, Some(0), Some(MaxRows - 1)},
        offset \in {None, Some(0), Some(1)}}

\* the filter arguments of a searchProducts query; limit and offset are any
\* GraphQL Int or null
FilterInputs ==
    {None} \cup
    {Some(ProductFilterInput(None, None, brand, None, None, limit, offset)) :
        brand \in {None, Some(<<"s", "t", "a", "n">>), Some(<<"(">>),
                   Some(<<"s", "t", "a", "n", ";">>)},
        limit \in {None} \cup {Some(n) : n \in {-5, 0, 1, MAX_LIMIT, 5 * MAX_LIMIT}},
        offset \in {None} \cup {Some(n) : n \in {-1, 0, 1}}}

\* every query starts with _load_data; here the file is readable and the
\* steps of lines 41-62 go through
Loads(op) == Leaves(op, load_data(Current, file, TRUE))

\* product_repository.get_all(limit, offset)
CallGetAll ==
    \E limit \in Limits, offset \in Offsets :
        /\ call = NoCall
        /\ call' = Call("get_all", [limit |-> limit, offset |-> offset],
                        Returned(get_all(table, limit, offset)))
        /\ Loads("get_all")
        /\ UNCHANGED <<authvars, now, advances, jwtvars, file, gql, threads, table>>

\* product_repository.get_by_filter(filter_params)
CallGetByFilter ==
    \E f \in Filters :
        /\ call = NoCall
        /\ call' = Call("get_by_filter", f, get_by_filter(table, f))
        /\ Loads("get_by_filter")
        /\ UNCHANGED <<authvars, now, advances, jwtvars, file, gql, threads, table>>

\* product_repository.count(), get_brands(), get_categories()
CallListing ==
    \E op \in {"count", "get_brands", "get_categories"} :
        /\ call = NoCall
        /\ call' = Call(op, <<>>,
                        CASE op = "count" -> count(table)
                          [] op = "get_brands" -> get_brands(table)
                          [] op = "get_categories" -> get_categories(table))
        /\ Loads(op)
        /\ UNCHANGED <<authvars, now, advances, jwtvars, file, gql, threads, table>>

\* the resolver of a products query with the arguments limit and offset
ResolveProducts ==
    \E limit \in Limits, offset \in Offsets :
        /\ call = NoCall
        /\ call' = Call("products", [limit |-> limit, offset |-> offset],
                        products(table, limit, offset))
        /\ Loads("get_all")
        /\ UNCHANGED <<authvars, now, advances, jwtvars, file, gql, threads, table>>

\* the resolver of a searchProducts query with the argument filter
ResolveSearchProducts ==
    \E filter \in FilterInputs :
        LET resolved == search_products(table, filter)
        IN /\ call = NoCall
           /\ call' = Call("searchProducts", filter, resolved)
           /\ IF resolved.reached
              THEN Loads("get_by_filter")
              ELSE UNCHANGED <<df, reads, read_calls, out>>
           /\ UNCHANGED <<authvars, now, advances, jwtvars, file, gql, threads, table>>

\* the resolver of a stats query
ResolveStats ==
    /\ call = NoCall
    /\ call' = Call("stats", <<>>, stats(table))
    /\ Leaves(LastQuery("stats"), AfterResolver("stats", TRUE))
    /\ UNCHANGED <<authvars, now, advances, jwtvars, file, gql, threads, table>>

\* a caller that pages: the pages it got, in order, up to the first empty one
UpToFirstEmpty(pages) ==
    LET empty == {k \in 1..Len(pages) : pages[k] = <<>>}
    IN IF empty = {} THEN pages
       ELSE SubSeq(pages, 1, (CHOOSE k \in empty : \A j \in empty : k <= j) - 1)

\* the page sizes such a caller asks for
PageLimits == 1..(MaxRows + 1)

\* the predicate sets such a caller keeps fixed from page to page
Predicates == {f \in Filters : f.limit = None /\ f.offset = None}

\* get_all(limit, 0), get_all(limit, limit), get_all(limit, 2 * limit), ...
PageThroughAll ==
    \E limit \in PageLimits :
        /\ call = NoCall
        /\ call' = Call("get_all, page by page", [limit |-> limit],
                        UpToFirstEmpty([k \in 1..(Len(table) + 2) |->
                                           get_all(table, limit, (k - 1) * limit)]))
        /\ Loads("get_all")
        /\ UNCHANGED <<authvars, now, advances, jwtvars, file, gql, threads, table>>

\* get_by_filter with the same predicates and limit, and the offsets 0,
\* limit, 2 * limit, ...; a call that raises gives the caller no page
PageThroughFilter ==
    \E f \in Predicates, limit \in PageLimits :
        /\ call = NoCall
        /\ call' = Call("get_by_filter, page by page", [filter |-> f, limit |-> limit],
                        UpToFirstEmpty([k \in 1..(Len(table) + 2) |->
                            get_by_filter(table,
                                          [f EXCEPT !.limit = Some(limit),
                                                    !.offset = Some((k - 1) * limit)]).rows]))
        /\ Loads("get_by_filter")
        /\ UNCHANGED <<authvars, now, advances, jwtvars, file, gql, threads, table>>

NextQuery ==
    \/ PageThroughAll
    \/ PageThroughFilter
    \/ CallGetAll
    \/ CallGetByFilter
    \/ CallListing
    \/ ResolveProducts
    \/ ResolveSearchProducts
    \/ ResolveStats

\* pieces of text, and the longest input in pieces
MaxPieces == 3
Repeated(c, n) == [i \in 1..n |-> c]
Fragments ==
    { <<"e", "v">>, <<"a", "l">>, <<"D", "r">>, <<"o", "p">>, <<"*">>, <<"/">>, <<"-">>,
      <<";">>, <<"<">>, <<" ">>, <<"x">> }
RECURSIVE Pieces(_)
Pieces(n) ==
    IF n = 0 THEN {<<>>}
    ELSE Pieces(n - 1) \cup {p \o t : p \in Fragments, t \in Pieces(n - 1)}

\* the strings a caller passes: short ones, and ones about max_length long
Texts ==
    Pieces(MaxPieces)
    \cup {Repeated("a", max_length - 1) \o t : t \in Pieces(MaxPieces - 1)}

\* the limits and offsets a caller of the service passes
RawLimits == {-5, 0, 1, 10, build_filter_limit, max_limit, max_limit + 1,
              MAX_LIMIT, MAX_LIMIT + 1, 2 * MAX_LIMIT}
RawOffsets == {-10, -5, 0, 5, 100}

\* products_service.validate_pagination(limit, offset)
CallValidatePagination ==
    \E limit \in RawLimits, offset \in RawOffsets :
        /\ call = NoCall
        /\ call' = Call("validate_pagination", [limit |-> limit, offset |-> offset],
                        validate_pagination(limit, offset))
        /\ UNCHANGED notcall

\* products_service.build_filter(brand=..., limit=..., offset=...); a limit or
\* an offset of None is an argument the caller leaves out
CallBuildFilter ==
    \E brand \in {None, Some(<<>>), Some(STANLEY), Some(<<"e", "v", "*", "a", "l">>)},
       limit \in {None} \cup {Some(n) : n \in RawLimits},
       offset \in {None} \cup {Some(n) : n \in RawOffsets} :
        /\ call = NoCall
        /\ call' = Call("build_filter",
                        [brand |-> brand, limit |-> limit, offset |-> offset],
                        build_filter(None, None, brand, None, None,
                                     IF limit = None THEN build_filter_limit ELSE Value(limit),
                                     IF offset = None THEN build_filter_offset ELSE Value(offset)))
        /\ UNCHANGED notcall

\* products_service._sanitize_string_input(value)
CallSanitize ==
    \E value \in Texts :
        /\ call = NoCall
        /\ call' = Call("sanitize_string_input", value, sanitize_string_input(value))
        /\ UNCHANGED notcall

NextService ==
    \/ CallValidatePagination
    \/ CallBuildFilter
    \/ CallSanitize

----------------------------------------------------------------------------
(* _load_data, statement by statement, under callers on several threads *)

\* threads that call the repository
MaxThreads == 2
Threads == 1..MaxThreads

\* a thread: where it is in its query (idle: in none; read: before line 34;
\* normalize: before lines 41-62; return: before line 66; done; raised), the
\* query, and the DataFrame _load_data returned to it
Thread(pc, op, used) == [pc |-> pc, op |-> op, used |-> used]
IdleThread == Thread("idle", "none", NoneDf)

\* a thread calls a query method and evaluates "self._df is None", line 22
Enter(t) ==
    \E op \in RepoQueries :
        /\ threads[t].pc \in {"idle", "done", "raised"}
        /\ threads' = [threads EXCEPT
                          ![t] = Thread(IF df = NoneDf THEN "read" ELSE "return", op, NoneDf)]
        /\ UNCHANGED <<authvars, now, advances, jwtvars, file, df, reads, read_calls,
                       out, gql, table, call>>

\* self._df = pd.read_csv(...), line 34; an exception ends in line 65
ReadCsv(t) ==
    /\ threads[t].pc = "read"
    /\ read_calls < MaxReads
    /\ read_calls' = read_calls + 1
    /\ IF file \in Unreadable
       THEN /\ threads' = [threads EXCEPT ![t].pc = "raised"]
            /\ UNCHANGED <<df, reads>>
       ELSE /\ threads' = [threads EXCEPT ![t].pc = "normalize"]
            /\ df' = RawDf(file)
            /\ reads' = reads + 1
    /\ UNCHANGED <<authvars, now, advances, jwtvars, file, out, gql, table, call>>

\* lines 41-62, on the DataFrame self._df names at the time; an exception
\* ends in line 65
Normalize(t) ==
    \E ok \in BOOLEAN :
        /\ threads[t].pc = "normalize"
        /\ IF ok
           THEN /\ df' = NormalizedDf(df.content)
                /\ threads' = [threads EXCEPT ![t].pc = "return"]
           ELSE /\ threads' = [threads EXCEPT ![t].pc = "raised"]
                /\ UNCHANGED df
        /\ UNCHANGED <<authvars, now, advances, jwtvars, file, reads, read_calls,
                       out, gql, table, call>>

\* return self._df, line 66; the query goes on with that DataFrame
Return(t) ==
    /\ threads[t].pc = "return"
    /\ threads' = [threads EXCEPT ![t].pc = "done", ![t].used = df]
    /\ UNCHANGED <<authvars, now, advances, jwtvars, file, df, reads, read_calls,
                   out, gql, table, call>>

EnterQuery == \E t \in Threads : Enter(t)
ReadFile == \E t \in Threads : ReadCsv(t)
NormalizeFrame == \E t \in Threads : Normalize(t)
ReturnFrame == \E t \in Threads : Return(t)

NextLoad ==
    \/ EnterQuery
    \/ ReadFile
    \/ NormalizeFrame
    \/ ReturnFrame
    \/ FileChange

----------------------------------------------------------------------------
(* Initial states and specifications *)

DataInit ==
    /\ file = "v1"
    /\ df = NoneDf
    /\ reads = 0
    /\ read_calls = 0
    /\ out = NoQuery
    /\ gql = NoGraphql
    /\ threads = [t \in Threads |-> IdleThread]
    /\ call = NoCall

NextData ==
    \/ CallQuery
    \/ FileChange
    \/ Graphql

NextGate ==
    \/ Graphql
    \/ Tick

----------------------------------------------------------------------------
(* The token endpoints and the service behind them *)

AuthInit ==
    /\ refresh_tokens = {}
    /\ issued = 0
    /\ issued_at = [t \in Tokens |-> 0]
    /\ jtis = 0
    /\ minted = {}
    /\ pending = EmptyBag
    /\ received = 0
    /\ calls = 0
    /\ last = NoOp
    /\ redeemed = {}
    /\ mints = [t \in Tokens |-> 0]

Init ==
    /\ AuthInit
    /\ now = 0
    /\ advances = 0
    /\ JwtInit
    /\ DataInit
    /\ table = SampleTable

\* the same, with any of the files on disk
InitQuery ==
    /\ AuthInit
    /\ now = 0
    /\ advances = 0
    /\ JwtInit
    /\ DataInit
    /\ table \in Datasets

HandleToken == \E p \in BagToSet(pending) : get_token(p)
HandleRefresh == \E p \in BagToSet(pending) : refresh_token(p)

Next ==
    \/ ReceiveToken
    \/ ReceiveRefresh
    \/ HandleToken
    \/ HandleRefresh
    \/ CallCreateRefreshToken
    \/ CallVerifyRefreshToken
    \/ CallRevokeRefreshToken
    \/ CallRefreshAccessToken

Spec == Init /\ [][Next]_vars

\* refresh tokens over time: issued, verified, revoked and redeemed, with
\* long pauses in between
NextLife ==
    \/ ReceiveRefresh
    \/ HandleRefresh
    \/ CallCreateRefreshToken
    \/ CallVerifyRefreshToken
    \/ CallRevokeRefreshToken
    \/ Sleep

SpecLife == Init /\ [][NextLife]_vars

\* access tokens over time
SpecJwt == Init /\ [][NextJwt]_vars

\* the repository, queried directly and through the GraphQL endpoint
SpecData == Init /\ [][NextData]_vars

\* the GraphQL endpoint behind the bearer-token gate, over time
SpecGate == Init /\ [][NextGate]_vars

\* the queries and the resolvers on the rows of a file
SpecQuery == InitQuery /\ [][NextQuery]_vars

\* the functions of ProductsService
SpecService == Init /\ [][NextService]_vars

\* first access to the repository from several threads
SpecLoad == Init /\ [][NextLoad]_vars

----------------------------------------------------------------------------
(* Steps, as seen from a pair of states *)

\* the step runs the handler of a pending request
Handled(op) ==
    /\ received' = received
    /\ pending' # pending
    /\ last'.op = op

\* the step is a direct call of the AuthService method op
Called(op) ==
    /\ calls' = calls + 1
    /\ last'.op = op

\* refresh token strings that were generated and are no longer valid
Removed == (1..issued) \ refresh_tokens

\* the response carries no access token and no refresh token
NoTokens(r) == r.access_token = NoAccess /\ r.refresh_token = NoRefresh

----------------------------------------------------------------------------
(* Claims *)

C2_AtMostOneMintPerToken ==
    /\ [](\A t \in Tokens : mints[t] <= 1 /\ (t \in redeemed => mints[t] = 1))
    /\ [][Handled("refresh_token") /\ last'.request.refresh_token \in Tokens
            /\ mints[last'.request.refresh_token] >= 1
          => /\ last'.status \in {400, 401}
             /\ NoTokens(last')
             /\ mints' = mints]_vars

\* C2 witness: a refresh request whose token was valid when it arrived has
\* been answered invalid_grant, because the handler of another request that
\* presented the same token ran first and minted from it.
C2_Witness ==
    /\ last.op = "refresh_token"
    /\ last.status = 401
    /\ last.raced
    /\ last.request.refresh_token \in Tokens
    /\ mints[last.request.refresh_token] = 1

C4_RemovedIsTerminal ==
    [][\A t \in Removed :
        /\ t \notin refresh_tokens'
        /\ (Called("verify_refresh_token") /\ last'.request.refresh_token = t
            => last'.ret = FALSE)
        /\ (Called("refresh_access_token") /\ last'.request.refresh_token = t
            => last'.ret = FALSE /\ last'.access_token = NoAccess /\ minted' = minted)
        /\ (Handled("refresh_token") /\ last'.request.refresh_token = t
            => last'.status \in {400, 401} /\ NoTokens(last'))]_vars

\* C4 witness: verify_refresh_token has just rejected a token that was
\* generated, was valid, and was removed.
C4_Witness ==
    /\ last.op = "verify_refresh_token"
    /\ last.request.refresh_token \in Removed
    /\ last.ret = FALSE

\* C5: revoke_refresh_token(t) returns true exactly when t was in the valid
\* set, leaves the set without t and otherwise as it was; revoking a token
\* that is already absent returns false and changes nothing.
C5_RevokeContract ==
    [][Called("revoke_refresh_token") =>
        LET t == last'.request.refresh_token IN
        /\ last'.ret = (t \in refresh_tokens)
        /\ t \notin refresh_tokens'
        /\ refresh_tokens' = refresh_tokens \ {t}
        /\ (t \notin refresh_tokens => refresh_tokens' = refresh_tokens)
        /\ (last.op = "revoke_refresh_token" /\ last.request.refresh_token = t
            => last'.ret = FALSE /\ refresh_tokens' = refresh_tokens)]_vars

\* C5 witness: a second revoke of a token that only an earlier revoke can
\* have removed (no refresh consumed it) has returned false.
C5_Witness ==
    /\ last.op = "revoke_refresh_token"
    /\ last.ret = FALSE
    /\ last.request.refresh_token \in Removed
    /\ mints[last.request.refresh_token] = 0

\* C6: POST /auth/token with grant_type "client_credentials" and the
\* configured client id and secret is answered with a success response that
\* carries access_token, token_type "bearer", expires_in (the access TTL in
\* seconds), refresh_token and refresh_expires_in, and the refresh token is in
\* the valid set when the response is returned.
C6_TokenSuccess ==
    [][Handled("get_token")
          /\ last'.request.grant_type = "client_credentials"
          /\ last'.request.client_id = "pipol_client"
          /\ last'.request.client_secret = "pipol_secret_2024"
       => /\ last'.status = 200
          /\ last'.access_token # NoAccess
          /\ last'.token_type = "bearer"
          /\ last'.expires_in = 30 * 60
          /\ last'.refresh_token \in refresh_tokens'
          /\ last'.refresh_expires_in > 0]_vars

\* C7: POST /auth/token with a grant_type other than "client_credentials" is
\* rejected as unsupported_grant_type (400); with that grant_type and a client
\* id or secret that differs from the configured one it is rejected as
\* invalid_client (401); neither response carries a token.
C7_TokenErrors ==
    [][Handled("get_token") =>
        /\ (last'.request.grant_type # "client_credentials"
            => /\ last'.status = 400
               /\ last'.error = "unsupported_grant_type"
               /\ NoTokens(last'))
        /\ (/\ last'.request.grant_type = "client_credentials"
            /\ \/ last'.request.client_id # "pipol_client"
               \/ last'.request.client_secret # "pipol_secret_2024"
            => /\ last'.status = 401
               /\ last'.error = "invalid_client"
               /\ NoTokens(last'))]_vars

\* C7 witness: a client_credentials request with the configured client id and
\* a wrong secret has been rejected as invalid_client.
C7_Witness ==
    /\ last.op = "get_token"
    /\ last.request.grant_type = "client_credentials"
    /\ last.request.client_id = "pipol_client"
    /\ last.request.client_secret = "wrong_secret"
    /\ last.status = 401
    /\ last.error = "invalid_client"

\* C8: authentication gate.  A resolver of the GraphQL schema runs only for a
\* request whose bearer token is signed with the configured key and is not
\* expired; a request without a token, or with one that fails verification,
\* is answered 401 or 403, no resolver runs and the repository is not touched.
C8_AuthenticationGate ==
    [][gql'.seq # gql.seq =>
        LET c == gql'.credentials
            passes == /\ c.kind = "jwt"
                      /\ c.key = "09d25e094faa6ca2556c818166b7a9563b93f7099f6f0f4caa6cf63b88e8d3e7"
                      /\ c.exp >= now \div TicksPerSecond
        IN /\ (gql'.resolver # "none" => passes)
           /\ (~passes => /\ gql'.status \in {401, 403}
                          /\ gql'.resolver = "none"
                          /\ gql'.result = "none"
                          /\ <<df, reads, read_calls, out>>' = <<df, reads, read_calls, out>>)]_vars

\* C8 witness: a request carrying a token that create_access_token issued,
\* presented after its expiry, has been answered 401 without a resolver run.
C8_Witness ==
    /\ gql.credentials = IssuedToken
    /\ gql.query \in GraphqlQueries
    /\ gql.status = 401
    /\ gql.resolver = "none"

\* C9: access-token round trip.  verify_token of the token that
\* create_access_token({sub: s}, ttl) returned gives a payload with sub = s,
\* exp and iat when it is called before issue time + ttl, and None when it is
\* called after issue time + ttl (by a whole second or more, the unit of
\* exp); it gives None for a JWT signed with another key and for a string
\* that is no JWT.
C9_AccessTokenRoundTrip ==
    checked # NoCheck =>
        IF checked.token = created
        THEN issue.expires_delta # NoDelta =>
                LET ttl == CHOOSE d \in issue.expires_delta : TRUE
                    expiry == issue.at + ttl
                IN /\ (checked.at < expiry
                        => /\ checked.payload.valid
                           /\ checked.payload.sub = issue.sub
                           /\ checked.payload.exp = expiry \div TicksPerSecond
                           /\ checked.payload.iat = issue.at \div TicksPerSecond)
                   /\ (checked.at \div TicksPerSecond > expiry \div TicksPerSecond
                        => checked.payload = NonePayload)
        ELSE checked.payload = NonePayload

\* C10: load-once.  Once a load has succeeded, the file has been read exactly
\* once, no later query reads it again or replaces the cached dataset, and
\* every query returns the cached dataset.
C10_LoadOnce ==
    /\ [](df # NoneDf /\ df.normalized
            => reads = 1 /\ out.op # "none" /\ ~out.raised /\ out.data = df)
    /\ [][df # NoneDf /\ df.normalized
            => df' = df /\ reads' = reads /\ read_calls' = read_calls]_vars

\* C10 witness: a query that ran while the file on disk differed from the
\* file that was loaded has returned the cached dataset, and the file has
\* been read once.
C10_Witness ==
    /\ df # NoneDf
    /\ df.normalized
    /\ out.op \in RepoQueries
    /\ out.on_disk # df.content
    /\ out.data = df
    /\ reads = 1

\* C11: concurrent first access.  However the steps of two or more queries
\* that begin while the repository is unloaded are interleaved, the file is
\* read at most once, and the queries that get a DataFrame from _load_data
\* all get the same one.
C11_SingleLoad ==
    /\ reads <= 1
    /\ \A t, u \in Threads :
          threads[t].pc = "done" /\ threads[u].pc = "done"
          => threads[t].used = threads[u].used

\* C12: load failure is a typed error.  When a query attempts the load and
\* pd.read_csv or a normalization step raises, the query (get_all,
\* get_by_filter, count, get_brands or get_categories) ends in an IOError
\* whose message begins with "Error loading CSV file" and which carries the
\* exception raised, and returns no data.
C12_LoadFailureTyped ==
    [][read_calls' > read_calls /\ (file \in Unreadable \/ ~df'.normalized) =>
        /\ out'.op \in RepoQueries
        /\ out'.raised
        /\ out'.error.type = "IOError"
        /\ out'.error.message[1] = "Error loading CSV file"
        /\ out'.error.cause = (IF file \in Unreadable THEN ReadError(file)
                                                      ELSE NormalizationError)
        /\ out'.data = NoneDf]_vars

\* C12 witness: get_by_filter, called on an unloaded repository whose file
\* the process may not open, has ended in the IOError that wraps the
\* PermissionError.
C12_Witness ==
    /\ out.op = "get_by_filter"
    /\ out.raised
    /\ out.error = IOError("PermissionError")
    /\ out.data = NoneDf
    /\ df = NoneDf

\* C13: pagination window.  For limit >= 1 and offset >= 0, get_all(limit,
\* offset) returns at most limit rows, the rows at the file positions offset
\* .. min(offset + limit, N) - 1 in file order; for offset >= N it returns
\* the empty list and raises nothing.
C13_PaginationWindow ==
    call.op = "get_all" /\ call.args.limit >= 1 /\ call.args.offset >= 0 =>
        LET limit == call.args.limit
            offset == call.args.offset
            N == Len(table)
            rows == call.ret.rows
        IN /\ ~call.ret.raised
           /\ Len(rows) <= limit
           /\ Len(rows) = Max(Min(offset + limit, N) - offset, 0)
           /\ \A i \in 1..Len(rows) : rows[i] = table[offset + i]
           /\ (offset >= N => rows = <<>>)

\* C13 witness: get_all with an offset at or behind the end of a file that
\* has rows has returned the empty list.
C13_Witness ==
    /\ call.op = "get_all"
    /\ call.args.limit >= 1
    /\ Len(table) >= 1
    /\ call.args.offset >= Len(table)
    /\ call.ret = Returned(<<>>)

\* C14: search without predicates is page.  For a filter that sets no
\* predicate and carries a limit and an offset, get_by_filter returns the
\* list get_all returns for that limit and offset.
C14_SearchWithoutPredicatesIsPage ==
    /\ call.op = "get_by_filter"
    /\ call.args.date = None /\ call.args.client_id = None /\ call.args.brand = None
    /\ call.args.sku = None /\ call.args.category = None
    /\ call.args.limit # None /\ call.args.offset # None
    => /\ ~call.ret.raised
       /\ call.ret.rows = get_all(table, Value(call.args.limit), Value(call.args.offset))

\* the str text has needle as a substring, letter case aside
Contains(needle, text) ==
    \E i \in 0..(Len(text) - Len(needle)) :
        \A k \in 1..Len(needle) : lower(needle[k]) = lower(text[i + k])

\* the row r satisfies every predicate the filter f sets
Satisfies(r, f) ==
    /\ Given(f.date) => r.id_tie_fecha_valor = f.date
    /\ f.client_id # None => r.id_cli_cliente = f.client_id
    /\ Given(f.sku) => r.desc_ga_sku_producto = f.sku
    /\ Given(f.brand) => /\ r.desc_ga_marca_producto # None
                         /\ Contains(Value(f.brand), Value(r.desc_ga_marca_producto))
    /\ Given(f.category) => /\ r.desc_categoria_prod_principal # None
                            /\ Contains(Value(f.category),
                                        Value(r.desc_categoria_prod_principal))

\* the query string q in lower case
LowerCased(q) == IF q = None THEN q ELSE Some([i \in 1..Len(Value(q)) |-> lower(Value(q)[i])])

\* C15: search semantics.  get_by_filter returns, in file order and within
\* the offset/limit window, the rows that satisfy every predicate the filter
\* sets: date, client_id and sku by equality, brand and category by
\* case-insensitive substring containment, a null cell never matching; it
\* returns the same for a brand or category string in another letter case,
\* and it raises nothing.
C15_SearchSemantics ==
    call.op = "get_by_filter" =>
        LET f == call.args
            offset == OrInt(f.offset, 0)
            limit == OrInt(f.limit, DefaultLimit)
            matching == SelectSeq(table, LAMBDA r : Satisfies(r, f))
        IN /\ ~call.ret.raised
           /\ call.ret.rows = slice(matching, offset, offset + limit)
           /\ get_by_filter(table, [f EXCEPT !.brand = LowerCased(@),
                                            !.category = LowerCased(@)]) = call.ret

\* the non-null values of the brand column
Brands == {Value(table[i].desc_ga_marca_producto) :
              i \in {j \in 1..Len(table) : table[j].desc_ga_marca_producto # None}}

\* C16: get_brands returns every non-null brand of the file but the sentinel
\* "No Aplica", each once, in ascending order, and stats.brands_count is the
\* length of that list.
C16_BrandsListing ==
    /\ call.op = "get_brands" =>
          /\ {call.ret[i] : i \in 1..Len(call.ret)} = Brands \ {NoAplica}
          /\ \A i \in 1..Len(call.ret) : call.ret[i] # NoAplica
          /\ \A i \in 1..(Len(call.ret) - 1) : StrLess(call.ret[i], call.ret[i + 1])
    /\ call.op = "stats" =>
          call.ret.brands_count = Cardinality(Brands \ {NoAplica})

\* C16 witness: get_brands has returned a list for a file in which a brand
\* occurs twice and another row carries the sentinel.
C16_Witness ==
    /\ call.op = "get_brands"
    /\ Len(call.ret) >= 1
    /\ \E i, j, k \in 1..Len(table) :
          /\ i # j
          /\ table[i].desc_ga_marca_producto = table[j].desc_ga_marca_producto
          /\ table[i].desc_ga_marca_producto \notin {None, Some(NoAplica)}
          /\ table[k].desc_ga_marca_producto = Some(NoAplica)

\* the limit cut to 1 .. MAX_LIMIT
Clamped(limit) == Min(Max(limit, 1), MAX_LIMIT)

\* C17: clamp.  validate_pagination(limit, offset) returns the limit cut to
\* 1 .. 1000 and the offset raised to 0 at least; build_filter does the same
\* to its limit and offset, and without arguments gives limit 100, offset 0.
C17_Clamp ==
    /\ call.op = "validate_pagination" =>
          /\ call.ret.limit = Clamped(call.args.limit)
          /\ call.ret.offset = Max(call.args.offset, 0)
    /\ call.op = "build_filter" =>
          /\ call.ret.limit =
                Some(Clamped(IF call.args.limit = None THEN DefaultLimit
                                                     ELSE Value(call.args.limit)))
          /\ call.ret.offset =
                Some(Max(IF call.args.offset = None THEN 0 ELSE Value(call.args.offset), 0))

\* C18: clamp on every path.  Whenever the resolver of products or of
\* searchProducts gets a slice of the DataFrame, the limit of the slice is
\* within 1 .. MAX_LIMIT and its offset is 0 or more.
C18_ClampOnEveryPath ==
    call.op \in {"products", "searchProducts"} /\ call.ret.sliced =>
        /\ call.ret.limit >= 1
        /\ call.ret.limit <= MAX_LIMIT
        /\ call.ret.offset >= 0

\* C19: sanitizer idempotence.  _sanitize_string_input of what
\* _sanitize_string_input returned is that same string.
C19_SanitizerIdempotent ==
    call.op = "sanitize_string_input" => sanitize_string_input(call.ret) = call.ret

\* the strings the output must not contain: the SQL comment markers and the
\* keyword tokens
ForbiddenTokens ==
    UNION {{dangerous_patterns[p][a] : a \in 1..Len(dangerous_patterns[p])} :
              p \in 2..Len(dangerous_patterns)}

\* C20: the sanitizer's output is defanged.  What _sanitize_string_input
\* returns has no quote, semicolon or angle bracket, no SQL comment marker, no
\* keyword token in any letter case, only whitelisted characters, at most 100
\* characters, and no whitespace at either end.
C20_OutputDefanged ==
    call.op = "sanitize_string_input" =>
        LET y == call.ret
        IN /\ \A i \in 1..Len(y) : y[i] \notin {"'", "\"", ";", "<", ">"}
           /\ \A i \in 1..Len(y) : Whitelisted(y[i])
           /\ Len(y) <= 100
           /\ y # <<>> => y[1] \notin Whitespace /\ y[Len(y)] \notin Whitespace
           /\ \A token \in ForbiddenTokens : ~Contains(token, y)

\* the text fields of a filter
TextFields == {"date", "brand", "sku", "category"}

\* C21: sanitize before query.  Whenever the resolver of searchProducts calls
\* get_by_filter, each text field of the filter it passes is what
\* _sanitize_string_input makes of the field of the query's argument.
C21_SanitizeBeforeQuery ==
    call.op = "searchProducts" /\ call.ret.reached /\ call.args # None =>
        \A field \in TextFields :
            model_filter(call.args)[field] = Sanitized(Value(call.args)[field])

\* C22: degrade to empty.  A query that got through the authentication and
\* whose resolver met an exception of the repository is answered with an
\* empty result, whichever of the five queries it is.
C22_DegradeToEmpty ==
    [][gql' # gql /\ gql'.resolver # "none" /\ out'.raised => gql'.result = "empty"]_vars

\* C23: verify-and-mint does not consume.  refresh_access_token(R, c) with R in
\* the valid set returns a new access token whose sub is c, with any other R
\* it returns None, and either way it leaves the valid set as it was; a token
\* leaves the valid set only in a step that calls revoke_refresh_token with
\* it (directly, or from the handler of /auth/refresh).
C23_VerifyAndMintKeeps ==
    [][/\ Called("refresh_access_token") =>
             /\ refresh_tokens' = refresh_tokens
             /\ IF last'.request.refresh_token \in refresh_tokens
                THEN /\ last'.ret
                     /\ last'.access_token.kind = "jwt"
                     /\ last'.access_token.sub = last'.request.client_id
                     /\ last'.access_token \notin minted
                     /\ last'.request.refresh_token \in refresh_tokens'
                ELSE /\ ~last'.ret
                     /\ last'.access_token = NoAccess
       /\ \A t \in refresh_tokens \ refresh_tokens' :
             /\ last'.request.refresh_token = t
             /\ Called("revoke_refresh_token") \/ Handled("refresh_token")]_vars

\* refresh_access_token has returned an access token for a valid refresh
\* token, and the token is still valid
C23_Witness ==
    /\ last.op = "refresh_access_token"
    /\ last.ret
    /\ last.access_token.sub = last.request.client_id
    /\ last.request.refresh_token \in refresh_tokens

\* C24: possession-based refresh.  A refresh with a token of the valid set
\* succeeds whatever client id it names, and the access token it mints has
\* that client id for its sub: refresh_access_token returns such a token, and
\* /auth/refresh answers with a success response that carries it.
C24_PossessionBasedRefresh ==
    [][/\ Called("refresh_access_token")
          /\ last'.request.refresh_token \in refresh_tokens =>
             /\ last'.ret
             /\ last'.access_token.sub = last'.request.client_id
       /\ Handled("refresh_token")
          /\ last'.request.grant_type = "refresh_token"
          /\ last'.request.refresh_token \in refresh_tokens =>
             /\ last'.status = 200
             /\ last'.access_token.kind = "jwt"
             /\ last'.access_token.sub = last'.request.client_id]_vars

\* the refresh token t has been in the valid set for longer than the life a
\* response advertises
Outlived(t) == now - issued_at[t] > AdvertisedLife

C26_RotationAllOrNothing ==
    [][/\ Handled("refresh_token")
          /\ last'.request.refresh_token \in refresh_tokens \ refresh_tokens' =>
             /\ last'.status = 200
             /\ last'.refresh_token \in refresh_tokens'
       /\ Handled("refresh_token") /\ last'.status # 200 =>
             (last'.request.refresh_token \in refresh_tokens
                 <=> last'.request.refresh_token \in refresh_tokens')
       /\ Handled("refresh_token") \/ Handled("get_token") =>
             \A t \in refresh_tokens' \ refresh_tokens :
                 last'.status = 200 /\ last'.refresh_token = t]_vars

\* the errors a request is rejected with
Rejections == {"unsupported_grant_type", "invalid_client", "invalid_grant"}

\* C27: rejected authentication requests have no effect.  A request to
\* /auth/token or /auth/refresh that is rejected as unsupported_grant_type,
\* invalid_client or invalid_grant leaves the valid set as it was and mints
\* nothing; a request with a wrong grant_type is rejected as
\* unsupported_grant_type whatever credentials or token it carries, so a valid
\* refresh token under a wrong grant_type stays valid.
C27_RejectionsKeepState ==
    [][/\ (Handled("get_token") \/ Handled("refresh_token")) /\ last'.error \in Rejections =>
             /\ refresh_tokens' = refresh_tokens
             /\ issued' = issued
             /\ minted' = minted
       /\ Handled("get_token") /\ last'.request.grant_type # "client_credentials" =>
             last'.status = 400 /\ last'.error = "unsupported_grant_type"
       /\ Handled("refresh_token") /\ last'.request.grant_type # "refresh_token" =>
             /\ last'.status = 400 /\ last'.error = "unsupported_grant_type"
             /\ last'.request.refresh_token \in refresh_tokens =>
                    last'.request.refresh_token \in refresh_tokens'
       /\ Handled("get_token") /\ last'.error = "invalid_client" =>
             /\ last'.request.grant_type = "client_credentials"
             /\ ~verify_client_credentials(last'.request.client_id,
                                           last'.request.client_secret)
       /\ Handled("refresh_token") /\ last'.error = "invalid_grant" =>
             /\ last'.request.grant_type = "refresh_token"
             /\ last'.request.refresh_token \notin refresh_tokens]_vars

\* /auth/refresh has rejected a request that carried a valid refresh token
\* under a wrong grant_type, and the token is still valid
C27_Witness ==
    /\ last.op = "refresh_token"
    /\ last.error = "unsupported_grant_type"
    /\ last.request.refresh_token \in refresh_tokens

\* C28: a failed load leaves the store unloaded.  A query in which _load_data
\* raises, in pd.read_csv or in a step after it, leaves self._df None, and a
\* query that gets a DataFrame from _load_data gets a normalized one, never
\* what a failed attempt left behind.
C28_FailedLoadLeavesUnloaded ==
    /\ [][out' # out /\ out'.raised => df' = NoneDf]_vars
    /\ [](out.op \in RepoQueries /\ ~out.raised => out.data.normalized)

\* C29: no query observes a partially normalized dataset.  However a first
\* load and other queries are interleaved, a query that finds self._df set
\* at line 22 finds a DataFrame that has been through lines 41-62, the
\* DataFrame _load_data returns to a query has been through them, and once
\* it has, self._df is never assigned again.
C29_NoPartialDataset ==
    /\ [][\A t \in Threads :
             threads[t].pc \in {"idle", "done", "raised"} /\ threads'[t].pc = "return"
                 => df.normalized]_vars
    /\ [](\A t \in Threads : threads[t].pc = "done" => threads[t].used.normalized)
    /\ [][df # NoneDf /\ df.normalized => df' = df]_vars

\* the rows of a list of pages, one page after the other
RECURSIVE Concatenated(_)
Concatenated(pages) ==
    IF pages = <<>> THEN <<>> ELSE Head(pages) \o Concatenated(Tail(pages))

\* the rows get_by_filter matches under the predicates f, in file order:
\* what it returns for a window that holds every row
Matching(f) == get_by_filter(table, [f EXCEPT !.limit = Some(MAX_LIMIT), !.offset = Some(0)]).rows

\* C30: pages partition the dataset.  For a limit of 1 or more, the pages
\* get_all returns for the offsets 0, limit, 2 * limit, ... up to the first
\* empty page, one after the other, are the rows of the file in file order,
\* each row once; every page but the last is full; and the same holds of
\* get_by_filter and the rows it matches under fixed predicates.
C30_PagesPartition ==
    /\ call.op = "get_all, page by page" =>
          /\ Concatenated(call.ret) = table
          /\ \A k \in 1..Len(call.ret) :
                Len(call.ret[k]) = Min(call.args.limit, Len(table) - (k - 1) * call.args.limit)
    /\ call.op = "get_by_filter, page by page" =>
          /\ Concatenated(call.ret) = Matching(call.args.filter)
          /\ \A k \in 1..Len(call.ret) :
                Len(call.ret[k]) = Min(call.args.limit,
                                       Len(Matching(call.args.filter)) - (k - 1) * call.args.limit)

\* a caller has paged through a file of several rows with get_all and got a
\* full page and then a shorter one
C30_Witness ==
    /\ call.op = "get_all, page by page"
    /\ Len(call.ret) >= 2
    /\ Len(call.ret[1]) = call.args.limit
    /\ Len(call.ret[Len(call.ret)]) < call.args.limit
    /\ Concatenated(call.ret) = table

====
